---- MODULE Spec2Model ----
(***************************************************************************)
(* Model of the serial terminal's device protocol engine                   *)
(* (src/unnamed/part_000): the reader loop of connectToPort (chunk         *)
(* reassembly and frame dispatch), the timer chain that connectToPort      *)
(* schedules after a successful open, the connect/disconnect handlers,     *)
(* and the two user writers (write button, terminal keyboard input).       *)
(*                                                                         *)
(* JavaScript runs every handler to completion, so one action is one task  *)
(* of the event loop together with the microtasks it triggers.  The        *)
(* program is parked only at its awaits on the transport: port.open(),     *)
(* reader.read(), reader.cancel() and port.close().                        *)
(***************************************************************************)
EXTENDS Integers, Sequences, FiniteSets, TLC

(***************************************************************************)
(* Bounds of the model.                                                    *)
(***************************************************************************)
MaxConn == 2
MaxDisc == 2
NumPorts == 2
MaxUserWrites == 1
MaxKeys == 1
MaxSamples == 1
MaxErrors == 1
MaxTime == 8000
MaxFrames == 2
MaxHexLen == 3

Conns == 1..MaxConn
Discs == 1..MaxDisc
Ports == 1..NumPorts

\* "undefined" for a number that was never assigned (let x: number;)
Undef == -1

VARIABLES
    \* module globals (lines 57-67)
    startStreaming, chipId, port, reader,
    firmwareIdentifier, firmwareMajor, firmwareMinor, firmwareInternal,
    hardwareVersion,
    connectDisabled,  \* connectButton.disabled
    selected,         \* the port of portSelector's selected option
    selectorDisabled, \* portSelector.disabled
    toFlush,          \* line 91, kept as the number of buffered keys
    \* one record per invocation of connectToPort
    cpc,      \* where the invocation is parked
    cawait,   \* the port whose open() or close() it awaits (0: none)
    crd,      \* the port whose readable its reader locks (0: none)
    cwr,      \* the port whose writable its `writer` was taken from (0: none)
    copen,    \* the time its open resolved
    cstep,    \* the next step of its timer chain (0: none scheduled, 9: all fired)
    temp, tempSet,   \* `let temp: Uint8Array` of its reader loop
    \* one record per invocation of disconnectFromPort
    dpc, dport,
    dcancel,  \* the invocation whose pending read its reader.cancel() ended
    \* the transport: one SerialPort per selectable option
    pstate, rlock, wlock, wire, sink, devPos, devSamples,
    \* the event loop's clock
    now,
    \* observations
    lastFeed,    \* the latest chunk: the buffer before it and what it printed
    log,         \* everything the reader loops have printed
    fed,         \* the bytes each invocation's loop has read
    fired,       \* the steps of each timer chain that have run
    out,         \* what the latest handler printed, warned or threw
    closeCalls,  \* the calls of close() made by each invocation
    nUser, nKeys, nErrors,
    \* a call of one of the two pure functions, made on its own
    call

globals == <<startStreaming, chipId, port, reader, connectDisabled, selected,
             selectorDisabled, toFlush>>
identity == <<firmwareIdentifier, firmwareMajor, firmwareMinor,
              firmwareInternal, hardwareVersion>>
connVars == <<cpc, cawait, crd, cwr, copen, cstep, temp, tempSet>>
discVars == <<dpc, dport, dcancel>>
portVars == <<pstate, rlock, wlock, wire, sink, devPos, devSamples>>
obsVars == <<lastFeed, log, fed, fired, out, closeCalls, nUser, nKeys, nErrors>>
vars == <<globals, identity, connVars, discVars, portVars, now, obsVars, call>>

(***************************************************************************)
(* Bytes and typed arrays.                                                 *)
(***************************************************************************)
\* temp[k] of a Uint8Array, k from 0; out of range reads undefined
At(a, k) == IF k >= 0 /\ k < Len(a) THEN a[k + 1] ELSE Undef

\* (x & 0xFF); undefined & 0xFF is 0
And255(x) == IF x = Undef THEN 0 ELSE x % 256

\* a shift that is lost beyond one byte
ShlByteOnly(x, n) == IF n = 8 THEN x * 256 ELSE x

\* (x << n) for the shifts the code uses
Shl(x, n) == IF n = 8 THEN x * 256 ELSE IF n = 16 THEN x * 65536 ELSE x

\* a.subarray(from)
Subarray(a, from) == SubSeq(a, from + 1, Len(a))

(***************************************************************************)
(* ParseData (lines 570-586).                                              *)
(***************************************************************************)
dataTypes == <<"u24", "u8", "i24r", "i24r", "u8", "i24r", "i24r">>

RECURSIVE ParseLoop(_, _, _, _, _)
ParseLoop(data, types, i, j, parsedData) ==
    IF i >= Len(types) THEN parsedData
    ELSE IF types[i + 1] = "u8" THEN
        ParseLoop(data, types, i + 1, j + 1, Append(parsedData, At(data, j)))
    ELSE IF types[i + 1] = "u24" THEN
        ParseLoop(data, types, i + 1, j + 3,
                  Append(parsedData,
                         And255(At(data, j)) + Shl(And255(At(data, j + 1)), 8)
                           + Shl(And255(At(data, j + 2)), 16)))
    ELSE IF types[i + 1] = "i24r" THEN
        ParseLoop(data, types, i + 1, j + 3,
                  Append(parsedData,
                         Shl(And255(At(data, j)), 16) + Shl(And255(At(data, j + 1)), 8)
                           + And255(At(data, j + 2))))
    ELSE ParseLoop(data, types, i + 1, j, parsedData)

ParseData(data, types) == ParseLoop(data, types, 0, 0, <<>>)

(***************************************************************************)
(* The reader loop's handling of one chunk (lines 362-421).                *)
(***************************************************************************)
\* an ack reported for every chunk that starts with 0xFF
AckBranchAlways(value, ss) == At(value, 0) = 255

\* line 370: the ack is reported only while startStreaming is set
AckBranch(value, ss) == At(value, 0) = 255 /\ ss

\* line 376
MarkerBranchOnlyAck(value) == At(value, 0) = 255
MarkerBranch(value) == At(value, 0) = 255 \/ At(value, 0) = 0

\* lines 376-384.  `temp` is declared without a value (line 358): appending
\* to it before any marker chunk reads temp.length of undefined, which throws
\* inside the Promise executor after resolve() was called; the rejection is
\* dropped, the rest of the executor is skipped, and the loop goes on.
Reassemble(t, tSet, value) ==
    IF MarkerBranch(value) THEN [temp |-> value, tempSet |-> TRUE, thrown |-> FALSE]
    ELSE IF ~tSet THEN [temp |-> t, tempSet |-> FALSE, thrown |-> TRUE]
    ELSE [temp |-> t \o value, tempSet |-> TRUE, thrown |-> FALSE]

\* lines 385, 389, 403, 407
SampleBranch(t, ss) == At(t, 0) = 0 /\ Len(t) = 18 /\ ss
FirmwareBranchAnyLen(t) == At(t, 1) = 47 /\ Len(t) >= 8
FirmwareBranch(t) == At(t, 1) = 47 /\ Len(t) = 8
HardwareBranch(t) == ~FirmwareBranch(t) /\ At(t, 1) = 37 /\ Len(t) = 3
ExgBranch(t) ==
    ~FirmwareBranch(t) /\ ~(At(t, 1) = 37 /\ Len(t) = 3)
      /\ At(t, 1) = 98 /\ Len(t) = 13

\* a decoder that reads the two 16-bit fields high byte first
RECURSIVE FirmwareLoopBigEndian(_, _, _)
FirmwareLoopBigEndian(t, i, acc) ==
    IF i < 8 THEN
        FirmwareLoopBigEndian(t, i + 6 + 1,
            [id |-> Shl(And255(At(t, i)), 8) + And255(At(t, i + 1)),
             major |-> Shl(And255(At(t, i + 2)), 8) + And255(At(t, i + 3)),
             minor |-> At(t, i + 4),
             internal |-> At(t, i + 5),
             events |-> Append(acc.events,
                 <<"fw", <<Shl(And255(At(t, i)), 8) + And255(At(t, i + 1)),
                           Shl(And255(At(t, i + 2)), 8) + And255(At(t, i + 3)),
                           At(t, i + 4), At(t, i + 5)>> >>)])
    ELSE acc

\* lines 390-401: for (let i = 2; i < 8; i++) whose body advances i six times
RECURSIVE FirmwareLoop(_, _, _)
FirmwareLoop(t, i, acc) ==
    IF i < 8 THEN
        FirmwareLoop(t, i + 6 + 1,
            [id |-> And255(At(t, i)) + Shl(And255(At(t, i + 1)), 8),
             major |-> And255(At(t, i + 2)) + Shl(And255(At(t, i + 3)), 8),
             minor |-> At(t, i + 4),
             internal |-> At(t, i + 5),
             events |-> Append(acc.events,
                 <<"fw", <<And255(At(t, i)) + Shl(And255(At(t, i + 1)), 8),
                           And255(At(t, i + 2)) + Shl(And255(At(t, i + 3)), 8),
                           At(t, i + 4), At(t, i + 5)>> >>)])
    ELSE acc

\* lines 409-414
ExgChip(c) == IF c = 1 THEN 1 ELSE 2

\* the lines written to the terminal by one chunk, as <<kind, numbers>>
ChunkEvents(t, tSet, value, ss, cid) ==
    LET r == Reassemble(t, tSet, value)
        ack == IF AckBranch(value, ss) THEN << <<"ack", <<>> >> >> ELSE <<>>
    IN  IF r.thrown THEN ack
        ELSE ack
             \o (IF SampleBranch(r.temp, ss)
                 THEN << <<"sample", ParseData(Subarray(r.temp, 1), dataTypes)>> >>
                 ELSE <<>>)
             \o (IF FirmwareBranch(r.temp)
                 THEN FirmwareLoop(r.temp, 2,
                        [id |-> Undef, major |-> Undef, minor |-> Undef,
                         internal |-> Undef, events |-> <<>>]).events
                 ELSE IF HardwareBranch(r.temp)
                 THEN << <<"hw", <<At(r.temp, 2)>> >> >>
                 ELSE IF ExgBranch(r.temp)
                 THEN << <<"exg", <<ExgChip(cid)>> \o Subarray(r.temp, 3)>> >>
                 ELSE <<>>)

\* reader.read() resolved with a chunk: lines 362-421 for invocation i
ProcessChunk(i, value) ==
    LET r == Reassemble(temp[i], tempSet[i], value)
        fw == FirmwareLoop(r.temp, 2,
                [id |-> firmwareIdentifier, major |-> firmwareMajor,
                 minor |-> firmwareMinor, internal |-> firmwareInternal,
                 events |-> <<>>])
        decodeFw == ~r.thrown /\ FirmwareBranch(r.temp)
        decodeHw == ~r.thrown /\ HardwareBranch(r.temp)
    IN  /\ temp' = [temp EXCEPT ![i] = r.temp]
        /\ tempSet' = [tempSet EXCEPT ![i] = r.tempSet]
        /\ firmwareIdentifier' = IF decodeFw THEN fw.id ELSE firmwareIdentifier
        /\ firmwareMajor' = IF decodeFw THEN fw.major ELSE firmwareMajor
        /\ firmwareMinor' = IF decodeFw THEN fw.minor ELSE firmwareMinor
        /\ firmwareInternal' = IF decodeFw THEN fw.internal ELSE firmwareInternal
        /\ hardwareVersion' = IF decodeHw THEN At(r.temp, 2) ELSE hardwareVersion
        /\ lastFeed' = [conn |-> i, chunk |-> value, before |-> temp[i],
                        beforeSet |-> tempSet[i],
                        events |-> ChunkEvents(temp[i], tempSet[i], value,
                                               startStreaming, chipId)]
        /\ log' = log \o ChunkEvents(temp[i], tempSet[i], value,
                                     startStreaming, chipId)
        /\ fed' = [fed EXCEPT ![i] = @ \o value]

\* reader.read() resolves with the first n bytes that are on the wire
\* (line 361, value branch)
Feed(i, n) ==
    /\ cpc[i] = "reading"
    /\ crd[i] # 0
    /\ pstate[crd[i]] = "opened"
    /\ n \in 1..Len(wire[crd[i]])
    /\ ProcessChunk(i, SubSeq(wire[crd[i]], 1, n))
    /\ wire' = [wire EXCEPT ![crd[i]] = SubSeq(@, n + 1, Len(@))]
    /\ UNCHANGED <<call, globals, cpc, cawait, crd, cwr, copen, cstep, dpc, dport, dcancel,
                   pstate, rlock, wlock, sink, devPos, devSamples, now,
                   fired, out, closeCalls, nUser, nKeys, nErrors>>

\* the transport cuts the stream into chunks at an arbitrary boundary
FeedCut(i) == crd[i] # 0 /\ \E n \in 1..Len(wire[crd[i]]) : Feed(i, n)

\* the read returns everything that has arrived
FeedAll(i) == crd[i] # 0 /\ Feed(i, Len(wire[crd[i]]))

(***************************************************************************)
(* Command catalog (lines 71-80, 555-568).  A hex string is a sequence of  *)
(* one-character strings.                                                  *)
(***************************************************************************)
HexDigits == <<"0", "1", "2", "3", "4", "5", "6", "7", "8", "9",
               "A", "B", "C", "D", "E", "F">>
LowerHexDigits == <<"0", "1", "2", "3", "4", "5", "6", "7", "8", "9",
                    "a", "b", "c", "d", "e", "f">>

\* the value of one hex digit, Undef for any other character
HexVal(c) ==
    IF \E d \in 1..16 : HexDigits[d] = c
    THEN (CHOOSE d \in 1..16 : HexDigits[d] = c) - 1
    ELSE IF \E d \in 1..16 : LowerHexDigits[d] = c
    THEN (CHOOSE d \in 1..16 : LowerHexDigits[d] = c) - 1
    ELSE Undef

\* parseInt skips leading white space
RECURSIVE StripSpaces(_)
StripSpaces(str) ==
    IF str # <<>> /\ str[1] = " " THEN StripSpaces(Tail(str)) ELSE str

\* the value of the longest prefix of hex digits after the digits read so
\* far (acc; Undef: none read)
RECURSIVE DigitsValue(_, _)
DigitsValue(str, acc) ==
    IF str = <<>> \/ HexVal(str[1]) = Undef THEN acc
    ELSE DigitsValue(Tail(str),
                     (IF acc = Undef THEN 0 ELSE acc) * 16 + HexVal(str[1]))

\* parseInt(pair, 16): white space, a sign, 0x, then the longest prefix of
\* hex digits; NaN if there is none
ParseInt16(pair) ==
    LET a == StripSpaces(pair)
        signed == a # <<>> /\ a[1] \in {"+", "-"}
        b == IF signed THEN Tail(a) ELSE a
        c == IF Len(b) >= 2 /\ b[1] = "0" /\ b[2] \in {"x", "X"}
             THEN Tail(Tail(b)) ELSE b
        v == DigitsValue(c, Undef)
    IN  IF v = Undef THEN [nan |-> TRUE, value |-> 0]
        ELSE [nan |-> FALSE, value |-> IF signed /\ a[1] = "-" THEN 0 - v ELSE v]

\* storing a number into a Uint8Array: NaN stores 0, others modulo 256
ToUint8(x) == IF x.nan THEN 0 ELSE x.value % 256

\* lines 555-568; ok = FALSE is the thrown Error
ConvertHexStringToByteArray(hexString) ==
    IF Len(hexString) = 0 THEN [ok |-> FALSE, bytes |-> <<>>]
    ELSE IF Len(hexString) % 2 # 0 THEN [ok |-> FALSE, bytes |-> <<>>]
    ELSE [ok |-> TRUE,
          bytes |-> [i \in 1..(Len(hexString) \div 2) |->
                       ToUint8(ParseInt16(SubSeq(hexString, 2 * i - 1, 2 * i)))]]

GET_FIRMWARE_VERSION_COMMAND == ConvertHexStringToByteArray(<<"2", "E">>).bytes
GET_SHIMMER_VERSION_COMMAND == ConvertHexStringToByteArray(<<"3", "F">>).bytes
START_STREAMING_COMMAND == ConvertHexStringToByteArray(<<"0", "7">>).bytes
STOP_STREAMING_COMMAND == ConvertHexStringToByteArray(<<"2", "0">>).bytes
GET_EXG_REG1_COMMAND ==
    ConvertHexStringToByteArray(<<"6", "3", "0", "0", "0", "0", "0", "A">>).bytes
GET_EXG_REG2_COMMAND ==
    ConvertHexStringToByteArray(<<"6", "3", "0", "1", "0", "0", "0", "A">>).bytes
SET_EXG_REG1_COMMAND ==
    ConvertHexStringToByteArray(<<"6", "1", "0", "0", "0", "0", "0", "A">>).bytes
SET_EXG_REG2_COMMAND ==
    ConvertHexStringToByteArray(<<"6", "1", "0", "0", "0", "1", "0", "A">>).bytes
SHIMMER3_DEFAULT_TEST_REG1 == <<0, 163, 16, 69, 69, 0, 0, 0, 2, 1>>
SHIMMER3_DEFAULT_TEST_REG2 == <<0, 163, 16, 69, 69, 0, 0, 0, 2, 1>>

(***************************************************************************)
(* Writes.  An entry of sink[p] is one chunk handed to the writable of     *)
(* port p by one writer.write() call: who wrote it, for which command      *)
(* (k-th of n calls) and the bytes.                                        *)
(***************************************************************************)
\* writer.write(bytes): one call
WholeWrite(src, id, cmd, bytes) ==
    << [src |-> src, id |-> id, cmd |-> cmd, k |-> 1, n |-> 1, bytes |-> bytes] >>

\* a per-byte loop that stops after the command and leaves the payload out
PerByteWritesCommandOnly(src, id, cmd, bytes) ==
    [j \in 1..4 |->
        [src |-> src, id |-> id, cmd |-> cmd, k |-> j, n |-> 4,
         bytes |-> <<bytes[j]>>]]

\* for (i...) writer.write(a.subarray(i, i + 1)) over command and payload
PerByteWrites(src, id, cmd, bytes) ==
    [j \in 1..Len(bytes) |->
        [src |-> src, id |-> id, cmd |-> cmd, k |-> j, n |-> Len(bytes),
         bytes |-> <<bytes[j]>>]]

(***************************************************************************)
(* The timer chain of connectToPort (lines 287-344).                       *)
(***************************************************************************)
\* a reader loop that cannot get a reader throws and retries without ever
\* yielding: the page's event loop never runs another task
Hung == \E i \in Conns : cpc[i] = "spinning"

InitialWaitTime == 200

\* the increment of `waitTime += ...` in the k-th setTimeout
Increment(k) == IF k = 7 THEN 5000 ELSE 200

\* the delay passed to the k-th setTimeout: the value of (waitTime += inc)
RECURSIVE DelayFromZero(_)
DelayFromZero(k) == IF k = 0 THEN 0 ELSE DelayFromZero(k - 1) + Increment(k)
RECURSIVE Delay(_)
Delay(k) == IF k = 0 THEN InitialWaitTime ELSE Delay(k - 1) + Increment(k)

\* lines 297, 309, 321, 329: the callback returns unless both are 3
ExgGateFirmwareOnly(fid, hw) == ~(fid # 3)
ExgGate(fid, hw) == ~(fid # 3 \/ hw # 3)

\* the writer.write() calls of step k of invocation i, in order
StepWrites(i, k, fid, hw) ==
    IF k = 1 THEN WholeWrite("seq", i, "GetFw", GET_FIRMWARE_VERSION_COMMAND)
    ELSE IF k = 2 THEN WholeWrite("seq", i, "GetHw", GET_SHIMMER_VERSION_COMMAND)
    ELSE IF k = 3 /\ ExgGate(fid, hw)
    THEN PerByteWrites("seq", i, "SetExg1",
                       SET_EXG_REG1_COMMAND \o SHIMMER3_DEFAULT_TEST_REG1)
    ELSE IF k = 4 /\ ExgGate(fid, hw)
    THEN PerByteWrites("seq", i, "SetExg2",
                       SET_EXG_REG2_COMMAND \o SHIMMER3_DEFAULT_TEST_REG2)
    ELSE IF k = 5 /\ ExgGate(fid, hw)
    THEN WholeWrite("seq", i, "GetExg1", GET_EXG_REG1_COMMAND)
    ELSE IF k = 6 /\ ExgGate(fid, hw)
    THEN WholeWrite("seq", i, "GetExg2", GET_EXG_REG2_COMMAND)
    ELSE IF k = 7 THEN WholeWrite("seq", i, "Start", START_STREAMING_COMMAND)
    ELSE <<>>

\* lines 324, 332
StepChipId(k, fid, hw, c) ==
    IF k = 5 /\ ExgGate(fid, hw) THEN 1
    ELSE IF k = 6 /\ ExgGate(fid, hw) THEN 2
    ELSE c

\* line 338
StepStreaming(k, ss) == IF k = 7 THEN TRUE ELSE ss

\* the time at which step k of invocation i is due
Due(i, k) == copen[i] + Delay(k)

\* setTimeout callbacks run in the order of their due times; callbacks due at
\* the same time run in the order they were registered
\* a chain whose timers are cleared when the port is given up
TimerPendingWhileConnected(i) == cstep[i] \in 1..8 /\ port # 0
TimerPending(i) == cstep[i] \in 1..8
TimerDue(i) == TimerPending(i) /\ Due(i, cstep[i]) <= now
AnyTimerDue == \E i \in Conns : TimerDue(i)

\* writer.write() queues the chunk while the writer's stream is alive: the
\* writer of invocation i holds the lock of its stream until it is released
\* (line 343) or the stream is destroyed with the device
WriterAlive(i) == cwr[i] # 0 /\ wlock[cwr[i]] = i

TimerFire(i) ==
    /\ ~Hung
    /\ TimerDue(i)
    /\ \A h \in Conns : h < i => ~TimerDue(h)
    /\ LET k == cstep[i]
           w == StepWrites(i, k, firmwareIdentifier, hardwareVersion)
       IN  /\ sink' = IF WriterAlive(i)
                      THEN [sink EXCEPT ![cwr[i]] = @ \o w]
                      ELSE sink
           /\ chipId' = StepChipId(k, firmwareIdentifier, hardwareVersion, chipId)
           /\ startStreaming' = StepStreaming(k, startStreaming)
           /\ wlock' = IF k = 8 /\ WriterAlive(i)
                       THEN [wlock EXCEPT ![cwr[i]] = 0]
                       ELSE wlock
           /\ cstep' = [cstep EXCEPT ![i] = k + 1]
           /\ fired' = [fired EXCEPT ![i] = Append(@,
                          [step |-> k, at |-> now, id |-> firmwareIdentifier,
                           hw |-> hardwareVersion, writes |-> Len(w),
                           landed |-> WriterAlive(i)])]
    /\ UNCHANGED <<call, port, reader, connectDisabled, selected, selectorDisabled,
                   toFlush, identity, cpc, cawait, crd, cwr, copen, temp, tempSet,
                   discVars, pstate, rlock, wire, devPos, devSamples, now,
                   lastFeed, log, fed, out, closeCalls, nUser, nKeys, nErrors>>

\* time passes until the next timer is due
NextDue(t) ==
    /\ \E i \in Conns : TimerPending(i) /\ Due(i, cstep[i]) = t
    /\ \A i \in Conns : TimerPending(i) => Due(i, cstep[i]) >= t

Tick ==
    /\ ~Hung
    /\ ~AnyTimerDue
    /\ \E i \in Conns :
         /\ TimerPending(i)
         /\ NextDue(Due(i, cstep[i]))
         /\ Due(i, cstep[i]) <= MaxTime
         /\ now' = Due(i, cstep[i])
    /\ UNCHANGED <<call, globals, identity, connVars, discVars, portVars, obsVars>>

(***************************************************************************)
(* The transport.  A SerialPort is "closed", "opening", "opened",          *)
(* "closing", or "lost" (the device went away: both streams are gone and   *)
(* the port only waits to be closed).  open() rejects unless the port is   *)
(* closed.  close() cancels the readable and aborts the writable, and both *)
(* reject on a locked stream, so that close() rejects, and the port stays  *)
(* open, while a reader or a writer still holds its lock.                  *)
(***************************************************************************)
OpenRejects(p, ps) == ps[p] # "closed"

CloseRejects(p, ps, rl, wl) ==
    \/ ps[p] \notin {"opened", "lost"}
    \/ ps[p] = "opened" /\ (rl[p] # 0 \/ wl[p] # 0)

\* port?.writable == null (lines 97, 282, 500)
NoWritable(gp, ps) == gp = 0 \/ ps[gp] # "opened"

\* markDisconnected (lines 229-241) is the four assignments
\*   out: <DISCONNECTED>, selectorDisabled = FALSE, connectDisabled = FALSE,
\*   port = 0
\* written out in every action whose handler calls it.

(***************************************************************************)
(* The head of the reader loop (lines 355-357) and what follows it when    *)
(* the loop is left (lines 434-443), for the global port gp.               *)
(***************************************************************************)
LoopEntry(gp, ps, rl, wl) ==
    IF gp = 0 THEN "exit"
    ELSE IF ps[gp] = "opened"
    THEN (IF rl[gp] # 0 THEN "spin" ELSE "read")
    ELSE IF CloseRejects(gp, ps, rl, wl) THEN "closeRejected"
    ELSE "closePending"

\* invocation i arrives at line 355; ps, rl are the transport's state by then,
\* cd the value of connectButton.disabled, lines what it has written so far
EnterLoop(i, ps, rl, wl, cd, lines) ==
    LET e == LoopEntry(port, ps, rl, wl)
    IN  /\ cpc' = [cpc EXCEPT ![i] =
                     CASE e = "exit" -> "done"
                       [] e = "spin" -> "spinning"
                       [] e = "read" -> "reading"
                       [] e = "closeRejected" -> "done"
                       [] e = "closePending" -> "closing"]
        /\ cawait' = [cawait EXCEPT ![i] = IF e = "closePending" THEN port ELSE 0]
        /\ crd' = [crd EXCEPT ![i] = IF e = "read" THEN port ELSE 0]
        /\ temp' = [temp EXCEPT ![i] = <<>>]
        /\ tempSet' = [tempSet EXCEPT ![i] = FALSE]
        /\ reader' = IF e = "read" THEN i ELSE reader
        /\ rlock' = IF e = "read" THEN [rl EXCEPT ![port] = i] ELSE rl
        /\ pstate' = IF e = "closePending" THEN [ps EXCEPT ![port] = "closing"] ELSE ps
        /\ closeCalls' = IF e \in {"closeRejected", "closePending"}
                         THEN [closeCalls EXCEPT !.conn[i] = @ + 1]
                         ELSE closeCalls
        /\ port' = IF e = "closeRejected" THEN 0 ELSE port
        /\ connectDisabled' = IF e = "closeRejected" THEN FALSE ELSE cd
        /\ selectorDisabled' = IF e = "closeRejected" THEN FALSE ELSE selectorDisabled
        /\ out' = lines \o (IF e = "closeRejected"
                            THEN <<"ERROR", "DISCONNECTED">> ELSE <<>>)

(***************************************************************************)
(* connectToPort (lines 246-444).                                          *)
(***************************************************************************)
\* the click handler's test (line 484)
ClickConnects == port = 0

NextConn(i) == cpc[i] = "idle" /\ \A h \in Conns : h < i => cpc[h] # "idle"
NextDisc(j) == dpc[j] = "idle" /\ \A h \in Discs : h < j => dpc[h] # "idle"

\* A click on the connect button with no current port (lines 483-489), then
\* lines 247-279 up to the call of port.open().  A cancelled port prompt
\* (line 206) returns without any change and is not an action.
ConnectClick(i) ==
    /\ ~Hung
    /\ ~connectDisabled
    /\ ClickConnects
    /\ NextConn(i)
    /\ IF OpenRejects(selected, pstate)
       THEN /\ cpc' = [cpc EXCEPT ![i] = "done"]
            /\ port' = 0
            /\ connectDisabled' = FALSE
            /\ selectorDisabled' = FALSE
            /\ out' = <<"ERROR", "DISCONNECTED">>
            /\ UNCHANGED <<cawait, pstate>>
       ELSE /\ cpc' = [cpc EXCEPT ![i] = "opening"]
            /\ cawait' = [cawait EXCEPT ![i] = selected]
            /\ port' = selected
            /\ connectDisabled' = TRUE
            /\ selectorDisabled' = TRUE
            /\ pstate' = [pstate EXCEPT ![selected] = "opening"]
            /\ out' = <<>>
    /\ UNCHANGED <<call, startStreaming, chipId, reader, selected, toFlush, identity,
                   crd, cwr, copen, cstep, temp, tempSet, discVars,
                   rlock, wlock, wire, sink, devPos, devSamples, now,
                   lastFeed, log, fed, fired, closeCalls, nUser, nKeys, nErrors>>

\* a catch that reports the error and leaves the connection as it is
OpenFailKeepsPort(i) ==
    /\ ~Hung
    /\ cpc[i] = "opening"
    /\ nErrors < MaxErrors
    /\ nErrors' = nErrors + 1
    /\ pstate' = [pstate EXCEPT ![cawait[i]] = "closed"]
    /\ cpc' = [cpc EXCEPT ![i] = "done"]
    /\ cawait' = [cawait EXCEPT ![i] = 0]
    /\ out' = <<"ERROR">>
    /\ UNCHANGED <<call, port, connectDisabled, selectorDisabled,
                   startStreaming, chipId, reader, selected, toFlush, identity,
                   crd, cwr, copen, cstep, temp, tempSet, discVars,
                   rlock, wlock, wire, sink, devPos, devSamples, now,
                   lastFeed, log, fed, fired, closeCalls, nUser, nKeys>>

\* port.open() rejected (lines 348-353)
OpenFail(i) ==
    /\ ~Hung
    /\ cpc[i] = "opening"
    /\ nErrors < MaxErrors
    /\ nErrors' = nErrors + 1
    /\ pstate' = [pstate EXCEPT ![cawait[i]] = "closed"]
    /\ cpc' = [cpc EXCEPT ![i] = "done"]
    /\ cawait' = [cawait EXCEPT ![i] = 0]
    /\ port' = 0
    /\ connectDisabled' = FALSE
    /\ selectorDisabled' = FALSE
    /\ out' = <<"ERROR", "DISCONNECTED">>
    /\ UNCHANGED <<call, startStreaming, chipId, reader, selected, toFlush, identity,
                   crd, cwr, copen, cstep, temp, tempSet, discVars,
                   rlock, wlock, wire, sink, devPos, devSamples, now,
                   lastFeed, log, fed, fired, closeCalls, nUser, nKeys>>

\* port.open() resolved: lines 280-357 up to the first reader.read()
OpenOk(i) ==
    /\ ~Hung
    /\ cpc[i] = "opening"
    /\ LET ps == [pstate EXCEPT ![cawait[i]] = "opened"]
       IN  IF NoWritable(port, ps)
           THEN \* line 282-285: return
                /\ pstate' = ps
                /\ cpc' = [cpc EXCEPT ![i] = "done"]
                /\ cawait' = [cawait EXCEPT ![i] = 0]
                /\ out' = <<"CONNECTED">>
                /\ UNCHANGED <<port, reader, connectDisabled, selectorDisabled,
                               crd, cwr, copen, cstep, temp, tempSet,
                               rlock, wlock, closeCalls>>
           ELSE IF wlock[port] # 0
           THEN \* line 287: getWriter() throws on a locked stream (to line 348)
                /\ pstate' = ps
                /\ cpc' = [cpc EXCEPT ![i] = "done"]
                /\ cawait' = [cawait EXCEPT ![i] = 0]
                /\ port' = 0
                /\ connectDisabled' = FALSE
                /\ selectorDisabled' = FALSE
                /\ out' = <<"CONNECTED", "ERROR", "DISCONNECTED">>
                /\ UNCHANGED <<reader, crd, cwr, copen, cstep, temp, tempSet,
                               rlock, wlock, closeCalls>>
           ELSE \* lines 287-347, then the loop
                /\ wlock' = [wlock EXCEPT ![port] = i]
                /\ cwr' = [cwr EXCEPT ![i] = port]
                /\ copen' = [copen EXCEPT ![i] = now]
                /\ cstep' = [cstep EXCEPT ![i] = 1]
                /\ EnterLoop(i, ps, rlock, [wlock EXCEPT ![port] = i], FALSE,
                             <<"CONNECTED">>)
    /\ UNCHANGED <<call, startStreaming, chipId, selected, toFlush, identity, discVars,
                   wire, sink, devPos, devSamples, now,
                   lastFeed, log, fed, fired, nUser, nKeys, nErrors>>

\* reader.read() rejected (lines 428-431), then the loop's head again.  After
\* an error the port offers a fresh readable unless the device is lost, in
\* which case both streams are gone.
ReadError(i, fatal) ==
    /\ ~Hung
    /\ cpc[i] = "reading"
    /\ pstate[crd[i]] = "opened"
    /\ nErrors < MaxErrors
    /\ nErrors' = nErrors + 1
    /\ LET p == crd[i]
           ps == IF fatal THEN [pstate EXCEPT ![p] = "lost"] ELSE pstate
           rl == [rlock EXCEPT ![p] = 0]
           wl == IF fatal THEN [wlock EXCEPT ![p] = 0] ELSE wlock
       IN  /\ wlock' = wl
           /\ EnterLoop(i, ps, rl, wl, connectDisabled, <<"ERROR">>)
    /\ UNCHANGED <<call, startStreaming, chipId, selected, toFlush, identity,
                   cwr, copen, cstep, discVars, wire, sink, devPos, devSamples,
                   now, lastFeed, log, fed, fired, nUser, nKeys>>

\* the port.close() of line 436 resolved (line 442)
ConnCloseDone(i) ==
    /\ ~Hung
    /\ cpc[i] = "closing"
    /\ pstate' = [pstate EXCEPT ![cawait[i]] = "closed"]
    /\ wire' = [wire EXCEPT ![cawait[i]] = <<>>]
    /\ cpc' = [cpc EXCEPT ![i] = "done"]
    /\ cawait' = [cawait EXCEPT ![i] = 0]
    /\ port' = 0
    /\ connectDisabled' = FALSE
    /\ selectorDisabled' = FALSE
    /\ out' = <<"DISCONNECTED">>
    /\ UNCHANGED <<call, startStreaming, chipId, reader, selected, toFlush, identity,
                   crd, cwr, copen, cstep, temp, tempSet, discVars,
                   rlock, wlock, sink, devPos, devSamples, now,
                   lastFeed, log, fed, fired, closeCalls, nUser, nKeys, nErrors>>

(***************************************************************************)
(* disconnectFromPort (lines 449-469).                                     *)
(***************************************************************************)
\* reader.cancel() (line 456) on the reader of invocation r: a pending read
\* resolves with done, and r runs lines 422-427 and leaves the loop
CancelEndsLoopNever(r) == FALSE
CancelEndsLoop(r) == r # 0 /\ cpc[r] = "reading"

\* lines 459-468 for localPort lp, from the state (ps, rl) of the transport
DiscClose(j, lp, ps, rl) ==
    IF lp = 0
    THEN /\ dpc' = [dpc EXCEPT ![j] = "done"]
         /\ connectDisabled' = FALSE
         /\ selectorDisabled' = FALSE
         /\ out' = <<"DISCONNECTED">>
         /\ pstate' = ps
         /\ UNCHANGED closeCalls
    ELSE IF CloseRejects(lp, ps, rl, wlock)
    THEN /\ dpc' = [dpc EXCEPT ![j] = "done"]
         /\ connectDisabled' = FALSE
         /\ selectorDisabled' = FALSE
         /\ out' = <<"ERROR", "DISCONNECTED">>
         /\ pstate' = ps
         /\ closeCalls' = [closeCalls EXCEPT !.disc[j] = @ + 1]
    ELSE /\ dpc' = [dpc EXCEPT ![j] = "closing"]
         /\ pstate' = [ps EXCEPT ![lp] = "closing"]
         /\ closeCalls' = [closeCalls EXCEPT !.disc[j] = @ + 1]
         /\ UNCHANGED <<connectDisabled, selectorDisabled, out>>

\* A click on the connect button while a port is current (lines 483-489),
\* then lines 452-457 up to the await of reader.cancel().
DisconnectClick(j) ==
    /\ ~Hung
    /\ ~connectDisabled
    /\ ~ClickConnects
    /\ NextDisc(j)
    /\ dport' = [dport EXCEPT ![j] = port]
    /\ dcancel' = [dcancel EXCEPT ![j] =
                     IF reader # 0 /\ cpc[reader] = "reading" THEN reader ELSE 0]
    /\ port' = 0
    /\ IF reader = 0
       THEN \* no reader: straight on to line 459
            /\ DiscClose(j, port, pstate, rlock)
            /\ UNCHANGED <<reader, cpc, crd, rlock>>
       ELSE IF CancelEndsLoop(reader)
       THEN \* the loop of the reader's invocation ends: lines 422-427, 355, 434
            /\ cpc' = [cpc EXCEPT ![reader] = "done"]
            /\ rlock' = [rlock EXCEPT ![crd[reader]] = 0]
            /\ crd' = [crd EXCEPT ![reader] = 0]
            /\ reader' = 0
            /\ dpc' = [dpc EXCEPT ![j] = "cancelling"]
            /\ out' = <<>>
            /\ UNCHANGED <<pstate, closeCalls, connectDisabled, selectorDisabled>>
       ELSE IF cpc[reader] = "reading"
       THEN \* (only with CancelEndsLoop changed) the read stays pending
            /\ dpc' = [dpc EXCEPT ![j] = "cancelling"]
            /\ out' = <<>>
            /\ UNCHANGED <<reader, cpc, crd, rlock, pstate, closeCalls,
                           connectDisabled, selectorDisabled>>
       ELSE \* the reader's stream has errored: cancel() rejects with the stored
            \* error and disconnectFromPort ends by that exception
            /\ dpc' = [dpc EXCEPT ![j] = "done"]
            /\ out' = <<"UNCAUGHT">>
            /\ UNCHANGED <<reader, cpc, crd, rlock, pstate, closeCalls,
                           connectDisabled, selectorDisabled>>
    /\ UNCHANGED <<call, startStreaming, chipId, selected, toFlush, identity,
                   cawait, cwr, copen, cstep, temp, tempSet,
                   wlock, wire, sink, devPos, devSamples, now,
                   lastFeed, log, fed, fired, nUser, nKeys, nErrors>>

\* reader.cancel() resolved: lines 459-468 up to the await of close()
DiscCancelDone(j) ==
    /\ ~Hung
    /\ dpc[j] = "cancelling"
    /\ DiscClose(j, dport[j], pstate, rlock)
    /\ port' = IF dpc'[j] = "done" THEN 0 ELSE port
    /\ UNCHANGED <<call, startStreaming, chipId, reader, selected, toFlush, identity,
                   connVars, dport, dcancel, rlock, wlock, wire, sink, devPos, devSamples,
                   now, lastFeed, log, fed, fired, nUser, nKeys, nErrors>>

\* localPort.close() resolved (line 468)
DiscCloseDone(j) ==
    /\ ~Hung
    /\ dpc[j] = "closing"
    /\ pstate' = [pstate EXCEPT ![dport[j]] = "closed"]
    /\ wire' = [wire EXCEPT ![dport[j]] = <<>>]
    /\ dpc' = [dpc EXCEPT ![j] = "done"]
    /\ port' = 0
    /\ connectDisabled' = FALSE
    /\ selectorDisabled' = FALSE
    /\ out' = <<"DISCONNECTED">>
    /\ UNCHANGED <<call, startStreaming, chipId, reader, selected, toFlush, identity,
                   connVars, dport, dcancel, rlock, wlock, sink, devPos, devSamples, now,
                   lastFeed, log, fed, fired, closeCalls, nUser, nKeys, nErrors>>

\* the user picks another option of the port selector while it is enabled
ChangeSelection(p) ==
    /\ ~Hung
    /\ ~selectorDisabled
    /\ p # selected
    /\ selected' = p
    /\ UNCHANGED <<call, startStreaming, chipId, port, reader, connectDisabled,
                   selectorDisabled, toFlush, identity, connVars, discVars,
                   portVars, now, obsVars>>

(***************************************************************************)
(* The user's writers.                                                     *)
(***************************************************************************)
\* what the user may type into bytesToWrite
UserInputs == { <<"2", "E">>, <<"2", "0">>, <<"2">> }

\* the write button's click handler (lines 492-507)
WriteClick(input) ==
    /\ ~Hung
    /\ nUser < MaxUserWrites
    /\ nUser' = nUser + 1
    /\ LET r == ConvertHexStringToByteArray(input)
       IN  IF ~r.ok
           THEN out' = <<"UNCAUGHT">> /\ UNCHANGED sink
           ELSE IF NoWritable(port, pstate)
           THEN out' = <<"WARN">> /\ UNCHANGED sink
           ELSE IF wlock[port] # 0
           THEN \* getWriter() throws on a locked stream
                out' = <<"UNCAUGHT">> /\ UNCHANGED sink
           ELSE /\ sink' = [sink EXCEPT ![port] =
                              @ \o WholeWrite("user", nUser + 1, "User", r.bytes)]
                /\ out' = <<"WRITTEN">>
    /\ UNCHANGED <<call, globals, identity, connVars, discVars, pstate, rlock, wlock,
                   wire, devPos, devSamples, now, lastFeed, log, fed, fired, closeCalls,
                   nKeys, nErrors>>

\* term.onData (lines 92-116): one key, 13 for Enter; flush is the state of
\* the flush-on-enter checkbox.  encoder.encode gives one byte per key here.
KeyInput(key, flush) ==
    /\ ~Hung
    /\ nKeys < MaxKeys
    /\ nKeys' = nKeys + 1
    /\ IF NoWritable(port, pstate)
       THEN out' = <<"WARN">> /\ UNCHANGED <<sink, toFlush>>
       ELSE IF wlock[port] # 0
       THEN out' = <<"UNCAUGHT">> /\ UNCHANGED <<sink, toFlush>>
       ELSE IF flush
       THEN IF key = 13
            THEN /\ sink' = [sink EXCEPT ![port] =
                     @ \o WholeWrite("key", nKeys + 1, "Keys", Append(toFlush, key))]
                 /\ toFlush' = <<>>
                 /\ out' = <<"WRITTEN">>
            ELSE /\ toFlush' = Append(toFlush, key)
                 /\ out' = <<>>
                 /\ UNCHANGED sink
       ELSE /\ sink' = [sink EXCEPT ![port] =
                          @ \o WholeWrite("key", nKeys + 1, "Keys", <<key>>)]
            /\ out' = <<"WRITTEN">>
            /\ UNCHANGED toFlush
    /\ UNCHANGED <<call, startStreaming, chipId, port, reader, connectDisabled, selected,
                   selectorDisabled, identity, connVars, discVars, pstate, rlock,
                   wlock, wire, devPos, devSamples, now, lastFeed, log, fed, fired,
                   closeCalls, nUser, nErrors>>

(***************************************************************************)
(* The device behind a port: it answers the commands it receives, in       *)
(* order, each reply led by the acknowledgement byte 255, and sends sample *)
(* packets (first byte 0) once streaming was started.                      *)
(***************************************************************************)
DeviceFirmware(p) == IF p = 1 THEN 3 ELSE 1
DeviceHardware(p) == 3
DeviceExgRegs(chip) == <<chip, 163, 16, 69, 69, 0, 0, 0, 2, 1>>
DeviceSamplePacket ==
    <<0, 1, 0, 0, 5, 0, 0, 1, 0, 0, 2, 6, 0, 0, 3, 0, 0, 4>>

DeviceReplyTo(p, bytes) ==
    IF At(bytes, 0) = 46 THEN <<255, 47, DeviceFirmware(p), 0, 0, 0, 16, 1>>
    ELSE IF At(bytes, 0) = 63 THEN <<255, 37, DeviceHardware(p)>>
    ELSE IF At(bytes, 0) = 97 THEN <<255>>
    ELSE IF At(bytes, 0) = 99 THEN <<255, 98, 10>> \o DeviceExgRegs(At(bytes, 1) + 1)
    ELSE IF At(bytes, 0) = 7 THEN <<255>>
    ELSE IF At(bytes, 0) = 32 THEN <<255>>
    ELSE <<>>

RECURSIVE Concat(_, _, _)
Concat(q, from, to) ==
    IF from > to THEN <<>> ELSE q[from].bytes \o Concat(q, from + 1, to)

\* the index in q, after pos, of the write that completes the next command
CommandEnd(q, pos) ==
    IF \E e \in (pos + 1)..Len(q) : q[e].k = q[e].n
    THEN CHOOSE e \in (pos + 1)..Len(q) :
            q[e].k = q[e].n /\ \A f \in (pos + 1)..(e - 1) : q[f].k # q[f].n
    ELSE 0

DeviceReply(p) ==
    /\ pstate[p] = "opened"
    /\ CommandEnd(sink[p], devPos[p]) # 0
    /\ LET e == CommandEnd(sink[p], devPos[p])
           bytes == Concat(sink[p], devPos[p] + 1, e)
       IN  /\ devPos' = [devPos EXCEPT ![p] = e]
           /\ wire' = [wire EXCEPT ![p] = @ \o DeviceReplyTo(p, bytes)]
           /\ devSamples' = [devSamples EXCEPT ![p] =
                               IF At(bytes, 0) = 7 THEN MaxSamples
                               ELSE IF At(bytes, 0) = 32 THEN 0 ELSE @]
    /\ UNCHANGED <<call, globals, identity, connVars, discVars, pstate, rlock, wlock,
                   sink, now, obsVars>>

DeviceSample(p) ==
    /\ pstate[p] = "opened"
    /\ devSamples[p] > 0
    /\ devSamples' = [devSamples EXCEPT ![p] = @ - 1]
    /\ wire' = [wire EXCEPT ![p] = @ \o DeviceSamplePacket]
    /\ UNCHANGED <<call, globals, identity, connVars, discVars, pstate, rlock, wlock,
                   sink, devPos, now, obsVars>>

(***************************************************************************)
(* Initial state: the page has loaded, nothing is connected.               *)
(***************************************************************************)
NoFeed == [conn |-> 0, chunk |-> <<>>, before |-> <<>>, beforeSet |-> FALSE,
           events |-> <<>>]

\* the page after load, no call of a pure function aside
Loaded ==
    /\ startStreaming = FALSE
    /\ chipId = Undef
    /\ port = 0
    /\ reader = 0
    /\ firmwareIdentifier = Undef
    /\ firmwareMajor = Undef
    /\ firmwareMinor = Undef
    /\ firmwareInternal = Undef
    /\ hardwareVersion = Undef
    /\ connectDisabled = FALSE
    /\ selected = 1
    /\ selectorDisabled = FALSE
    /\ toFlush = <<>>
    /\ cpc = [i \in Conns |-> "idle"]
    /\ cawait = [i \in Conns |-> 0]
    /\ crd = [i \in Conns |-> 0]
    /\ cwr = [i \in Conns |-> 0]
    /\ copen = [i \in Conns |-> 0]
    /\ cstep = [i \in Conns |-> 0]
    /\ temp = [i \in Conns |-> <<>>]
    /\ tempSet = [i \in Conns |-> FALSE]
    /\ dpc = [j \in Discs |-> "idle"]
    /\ dport = [j \in Discs |-> 0]
    /\ dcancel = [j \in Discs |-> 0]
    /\ pstate = [p \in Ports |-> "closed"]
    /\ rlock = [p \in Ports |-> 0]
    /\ wlock = [p \in Ports |-> 0]
    /\ wire = [p \in Ports |-> <<>>]
    /\ sink = [p \in Ports |-> <<>>]
    /\ devPos = [p \in Ports |-> 0]
    /\ devSamples = [p \in Ports |-> 0]
    /\ now = 0
    /\ lastFeed = NoFeed
    /\ log = <<>>
    /\ fed = [i \in Conns |-> <<>>]
    /\ fired = [i \in Conns |-> <<>>]
    /\ out = <<>>
    /\ closeCalls = [conn |-> [i \in Conns |-> 0], disc |-> [j \in Discs |-> 0]]
    /\ nUser = 0
    /\ nKeys = 0
    /\ nErrors = 0

NoCall == [fn |-> "none", arg |-> <<>>, done |-> FALSE, ok |-> FALSE, ret |-> <<>>]

Init == Loaded /\ call = NoCall

(***************************************************************************)
(* Next-state relations and specifications.                                *)
(***************************************************************************)
\* one connection: the timer chain, the device's replies, the reader loop
\* and the user's writers
NextSeq ==
    \/ \E i \in Conns : ConnectClick(i)
    \/ \E i \in Conns : OpenOk(i)
    \/ \E i \in Conns : TimerFire(i)
    \/ Tick
    \/ \E i \in Conns : FeedAll(i)
    \/ \E p \in Ports : DeviceReply(p)
    \/ \E p \in Ports : DeviceSample(p)
    \/ \E input \in UserInputs : WriteClick(input)
    \/ \E key \in {13, 97}, flush \in BOOLEAN : KeyInput(key, flush)
    \/ \E p \in Ports : ChangeSelection(p)

SpecSeq == Init /\ [][NextSeq]_vars

\* connecting and disconnecting: the two click handlers, the transport's
\* answers, the timer chains and the choice of the port
NextConnect ==
    \/ \E i \in Conns : ConnectClick(i)
    \/ \E i \in Conns : OpenOk(i)
    \/ \E i \in Conns : OpenFail(i)
    \/ \E i \in Conns : TimerFire(i)
    \/ Tick
    \/ \E i \in Conns, fatal \in BOOLEAN : ReadError(i, fatal)
    \/ \E i \in Conns : ConnCloseDone(i)
    \/ \E j \in Discs : DisconnectClick(j)
    \/ \E j \in Discs : DiscCancelDone(j)
    \/ \E j \in Discs : DiscCloseDone(j)
    \/ \E p \in Ports : ChangeSelection(p)

SpecConnect == Init /\ [][NextConnect]_vars

(***************************************************************************)
(* The reader loop alone: a connection that is reading, with bytes of the  *)
(* device already on the wire, cut into chunks at every possible boundary. *)
(***************************************************************************)
FramePayloadBytes == {0, 3, 255}

\* every 8-byte frame with a marker byte first and 47 second
FirmwareFrames ==
    { <<m, 47>> \o pl : m \in {0, 255}, pl \in [1..6 -> FramePayloadBytes] }

FrameLibrary ==
    { <<255, 47, 3, 0, 0, 0, 16, 1>>,
      <<255, 37, 3>>,
      <<255, 98, 10, 1, 163, 16, 69, 69, 1, 1, 1, 2, 1>>,
      DeviceSamplePacket,
      <<0, 1, 1, 1, 5, 1, 1, 1, 1, 1, 2, 6, 1, 1, 3, 1, 1, 4>>,
      <<7, 7>> }

RECURSIVE FrameRuns(_)
FrameRuns(n) ==
    IF n = 0 THEN { <<>> }
    ELSE { r \o f : r \in FrameRuns(n - 1), f \in FrameLibrary } \cup FrameRuns(n - 1)

\* 18-byte sample frames whose second byte (the low byte of the timestamp)
\* is or is not one of the discriminators 47, 37, 98; no later byte is a
\* marker
SampleFrames ==
    { <<0, d, 1, 1, 5, 1, 1, 1, 1, 1, 2, 6, 1, 1, 3, 1, 1, 4>> :
        d \in {1, 37, 47, 98} }

FeedWires == FirmwareFrames \cup SampleFrames \cup (FrameRuns(MaxFrames) \ { <<>> })

\* the steps of the chain that have fired when step k is the next one, with
\* no identity received
FiredBefore(i, k) ==
    [s \in 1..(k - 1) |->
        [step |-> s, at |-> Delay(s), id |-> Undef, hw |-> Undef,
         writes |-> Len(StepWrites(i, s, Undef, Undef)), landed |-> TRUE]]

RECURSIVE SinkBefore(_, _)
SinkBefore(i, k) ==
    IF k <= 1 THEN <<>>
    ELSE SinkBefore(i, k - 1) \o StepWrites(i, k - 1, Undef, Undef)

InitFeed ==
    \E w \in FeedWires, ss \in BOOLEAN :
      LET k == IF ss THEN 9 ELSE 7
      IN  /\ startStreaming = ss
          /\ chipId = Undef
          /\ port = 1
          /\ reader = 1
          /\ firmwareIdentifier = Undef
          /\ firmwareMajor = Undef
          /\ firmwareMinor = Undef
          /\ firmwareInternal = Undef
          /\ hardwareVersion = Undef
          /\ connectDisabled = FALSE
          /\ selected = 1
          /\ selectorDisabled = TRUE
          /\ toFlush = <<>>
          /\ cpc = [i \in Conns |-> IF i = 1 THEN "reading" ELSE "idle"]
          /\ cawait = [i \in Conns |-> 0]
          /\ crd = [i \in Conns |-> IF i = 1 THEN 1 ELSE 0]
          /\ cwr = [i \in Conns |-> IF i = 1 THEN 1 ELSE 0]
          /\ copen = [i \in Conns |-> 0]
          /\ cstep = [i \in Conns |-> IF i = 1 THEN k ELSE 0]
          /\ temp = [i \in Conns |-> <<>>]
          /\ tempSet = [i \in Conns |-> FALSE]
          /\ dpc = [j \in Discs |-> "idle"]
          /\ dport = [j \in Discs |-> 0]
          /\ dcancel = [j \in Discs |-> 0]
          /\ pstate = [p \in Ports |-> IF p = 1 THEN "opened" ELSE "closed"]
          /\ rlock = [p \in Ports |-> IF p = 1 THEN 1 ELSE 0]
          /\ wlock = [p \in Ports |-> IF p = 1 /\ ~ss THEN 1 ELSE 0]
          /\ wire = [p \in Ports |-> IF p = 1 THEN w ELSE <<>>]
          /\ sink = [p \in Ports |-> IF p = 1 THEN SinkBefore(1, k) ELSE <<>>]
          /\ devPos = [p \in Ports |-> IF p = 1 THEN Len(SinkBefore(1, k)) ELSE 0]
          /\ devSamples = [p \in Ports |-> 0]
          /\ now = Delay(k - 1)
          /\ lastFeed = NoFeed
          /\ log = <<>>
          /\ fed = [i \in Conns |-> <<>>]
          /\ fired = [i \in Conns |-> IF i = 1 THEN FiredBefore(1, k) ELSE <<>>]
          /\ out = <<"CONNECTED">>
          /\ closeCalls = [conn |-> [i \in Conns |-> 0], disc |-> [j \in Discs |-> 0]]
          /\ nUser = 0
          /\ nKeys = 0
          /\ nErrors = 0
          /\ call = NoCall

NextFeed == \E i \in Conns : FeedCut(i)

SpecFeed == InitFeed /\ [][NextFeed]_vars

(***************************************************************************)
(* Claims about the reader loop (checked under SpecFeed).                  *)
(***************************************************************************)
IsKind(kind, e) == e[1] = kind
DecodesOf(events) == SelectSeq(events, LAMBDA e : e[1] # "ack")
FirmwareDecodesOf(events) == SelectSeq(events, LAMBDA e : e[1] = "fw")

\* the firmware fields of an 8-byte frame, read at their offsets
FrameFields(f) == <<f[3] + 256 * f[4], f[5] + 256 * f[6], f[7], f[8]>>

\* C1: when the bytes of one FirmwareVersion frame (marker byte, 47, six
\* payload bytes) have all been fed, in chunks cut anywhere, exactly one
\* FirmwareVersion frame has been decoded, with the bytes and fields of the
\* frame fed as a single chunk.
C1_SplitFrameDecodedOnce ==
    (wire[1] = <<>> /\ fed[1] \in FirmwareFrames)
        => /\ FirmwareDecodesOf(log) = << <<"fw", FrameFields(fed[1])>> >>
           /\ temp[1] = fed[1]

\* C2: after a chunk whose first byte is 255 or 0 the buffer is that chunk.
C2_MarkerChunkReplacesBuffer ==
    (lastFeed.conn # 0 /\ lastFeed.chunk[1] \in {0, 255})
        => /\ tempSet[lastFeed.conn]
           /\ temp[lastFeed.conn] = lastFeed.chunk

\* C2 witness: a marker chunk arrives right after a frame completed in a
\* buffer that was built from more than one chunk
C2_Witness ==
    /\ lastFeed.conn # 0
    /\ lastFeed.chunk[1] \in {0, 255}
    /\ lastFeed.beforeSet
    /\ Len(lastFeed.before) = 8
    /\ lastFeed.before[2] = 47
    /\ temp[lastFeed.conn] = lastFeed.chunk
    /\ temp[lastFeed.conn] # lastFeed.before

\* C3: a chunk prints at most one decoded message; it prints one of a kind
\* only if the buffer after the chunk has that kind's length and
\* discriminator; and the buffer after the chunk is the chunk (marker) or the
\* old buffer with the chunk appended, never cleared by a decode.
C3_DispatchOnlyOnMatch ==
    lastFeed.conn # 0 =>
        LET t == temp[lastFeed.conn]
            d == DecodesOf(lastFeed.events)
        IN  /\ Len(d) <= 1
            /\ \A n \in 1..Len(d) :
                 /\ d[n][1] = "sample" => Len(t) = 18 /\ t[1] = 0
                 /\ d[n][1] = "fw" => Len(t) = 8 /\ t[2] = 47
                 /\ d[n][1] = "hw" => Len(t) = 3 /\ t[2] = 37
                 /\ d[n][1] = "exg" => Len(t) = 13 /\ t[2] = 98
            /\ tempSet[lastFeed.conn] =>
                 \/ t = lastFeed.chunk
                 \/ lastFeed.beforeSet /\ t = lastFeed.before \o lastFeed.chunk
            /\ ~tempSet[lastFeed.conn] => d = <<>>

\* C3 witness: a sample frame completed by a chunk appended to a buffer,
\* after an earlier chunk left a buffer that matched no kind
C3_Witness ==
    /\ lastFeed.conn # 0
    /\ lastFeed.beforeSet
    /\ Len(lastFeed.before) \in 1..17
    /\ Len(temp[lastFeed.conn]) = 18
    /\ DecodesOf(lastFeed.events) # <<>>
    /\ DecodesOf(lastFeed.events)[1][1] = "sample"

(***************************************************************************)
(* Claims about the timer chain and the writers (checked under SpecSeq).   *)
(***************************************************************************)
\* the bytes that the writes of command cmd by timer chain i put into sink[p]
RECURSIVE BytesOf(_, _, _)
BytesOf(q, i, cmd) ==
    IF q = <<>> THEN <<>>
    ELSE (IF q[1].src = "seq" /\ q[1].id = i /\ q[1].cmd = cmd
          THEN q[1].bytes ELSE <<>>) \o BytesOf(Tail(q), i, cmd)

FiredStep(i, k) == \E n \in 1..Len(fired[i]) : fired[i][n].step = k
FiredRecord(i, k) == fired[i][CHOOSE n \in 1..Len(fired[i]) : fired[i][n].step = k]

\* C4: a step 3..6 that has fired wrote its command (and payload) if the
\* identity was (3, 3) when it fired and wrote nothing otherwise; steps 1, 2
\* and 7 wrote their commands whatever the identity, step 7 set the
\* streaming flag and step 8 released the writer.
C4_ExgStepsGatedOnIdentity ==
    \A i \in Conns : cwr[i] # 0 =>
        LET q == sink[cwr[i]]
            gate(k) == FiredRecord(i, k).id = 3 /\ FiredRecord(i, k).hw = 3
        IN  /\ BytesOf(q, i, "GetFw") = (IF FiredStep(i, 1) THEN <<46>> ELSE <<>>)
            /\ BytesOf(q, i, "GetHw") = (IF FiredStep(i, 2) THEN <<63>> ELSE <<>>)
            /\ BytesOf(q, i, "SetExg1") =
                 (IF FiredStep(i, 3) /\ gate(3)
                  THEN <<97, 0, 0, 10, 0, 163, 16, 69, 69, 0, 0, 0, 2, 1>> ELSE <<>>)
            /\ BytesOf(q, i, "SetExg2") =
                 (IF FiredStep(i, 4) /\ gate(4)
                  THEN <<97, 0, 1, 10, 0, 163, 16, 69, 69, 0, 0, 0, 2, 1>> ELSE <<>>)
            /\ BytesOf(q, i, "GetExg1") =
                 (IF FiredStep(i, 5) /\ gate(5) THEN <<99, 0, 0, 10>> ELSE <<>>)
            /\ BytesOf(q, i, "GetExg2") =
                 (IF FiredStep(i, 6) /\ gate(6) THEN <<99, 1, 0, 10>> ELSE <<>>)
            /\ BytesOf(q, i, "Start") = (IF FiredStep(i, 7) THEN <<7>> ELSE <<>>)
            /\ FiredStep(i, 7) => startStreaming
            /\ FiredStep(i, 8) => wlock[cwr[i]] # i

\* C4 witness: a chain has run to its end; the identity was not yet (3, 3)
\* at step 3, which wrote nothing, and was (3, 3) at step 6, which wrote
C4_Witness ==
    \E i \in Conns :
        /\ FiredStep(i, 8)
        /\ FiredRecord(i, 3).hw # 3
        /\ FiredRecord(i, 6).id = 3 /\ FiredRecord(i, 6).hw = 3
        /\ BytesOf(sink[cwr[i]], i, "GetExg2") # <<>>
        /\ BytesOf(sink[cwr[i]], i, "SetExg1") = <<>>

\* C5 as claimed: the steps fire 200, 400, 600, 800, 1000, 1200, 6200 and
\* 6400 ms after the open.
ClaimedOffsets == <<200, 400, 600, 800, 1000, 1200, 6200, 6400>>
C5_ClaimedOffsets ==
    \A i \in Conns : \A n \in 1..Len(fired[i]) :
        fired[i][n].at = copen[i] + ClaimedOffsets[fired[i][n].step]

\* C5 as amended: the steps fire in the order 1..8, at 400, 600, 800, 1000,
\* 1200, 1400, 6400 and 6600 ms after the open, whether or not a reply has
\* arrived.
ActualOffsets == <<400, 600, 800, 1000, 1200, 1400, 6400, 6600>>
C5_ActualOffsets ==
    \A i \in Conns :
        /\ Len(fired[i]) <= 8
        /\ \A n \in 1..Len(fired[i]) :
             /\ fired[i][n].step = n
             /\ fired[i][n].at = copen[i] + ActualOffsets[n]
        /\ cstep[i] \in 1..8 => cstep[i] = Len(fired[i]) + 1

\* C5 witness: a whole chain has fired although no reply was ever read
C5_Witness ==
    \E i \in Conns :
        /\ Len(fired[i]) = 8
        /\ fed[i] = <<>>
        /\ firmwareIdentifier = Undef

\* C6: a decoded ExgConfig frame is printed with the chip whose registers
\* it carries (the device answers GetExgReg1 with chip 1's registers,
\* GetExgReg2 with chip 2's).
C6_ExgTaggedWithQueriedChip ==
    \A n \in 1..Len(lastFeed.events) :
        lastFeed.events[n][1] = "exg"
            => lastFeed.events[n][2][1] = lastFeed.events[n][2][2]

\* the positions of sink q that hold writes of the command at position a
SameCommand(q, a, b) ==
    q[a].src = q[b].src /\ q[a].id = q[b].id /\ q[a].cmd = q[b].cmd

\* the bytes a command of the timer chain consists of
CommandBytes(cmd) ==
    IF cmd = "GetFw" THEN <<46>>
    ELSE IF cmd = "GetHw" THEN <<63>>
    ELSE IF cmd = "SetExg1" THEN <<97, 0, 0, 10, 0, 163, 16, 69, 69, 0, 0, 0, 2, 1>>
    ELSE IF cmd = "SetExg2" THEN <<97, 0, 1, 10, 0, 163, 16, 69, 69, 0, 0, 0, 2, 1>>
    ELSE IF cmd = "GetExg1" THEN <<99, 0, 0, 10>>
    ELSE IF cmd = "GetExg2" THEN <<99, 1, 0, 10>>
    ELSE <<7>>

\* C7: in what reaches a port, the writes of one command are consecutive and
\* in order, nothing of another command lies between them, and together
\* they are the command's bytes.
C7_CommandBytesContiguous ==
    \A p \in Ports :
        LET q == sink[p]
        IN  \A a \in 1..Len(q) :
              /\ \A c \in a..Len(q) :
                   SameCommand(q, a, c) =>
                     /\ \A b \in a..c : SameCommand(q, a, b)
                     /\ q[c].k = q[a].k + (c - a)
              /\ q[a].k = 1 =>
                   /\ a + q[a].n - 1 <= Len(q)
                   /\ SameCommand(q, a, a + q[a].n - 1)
                   /\ q[a].src = "seq" =>
                        Concat(q, a, a + q[a].n - 1) = CommandBytes(q[a].cmd)
              /\ q[a].k > 1 => a > 1 /\ SameCommand(q, a, a - 1)

\* C7 witness: a register-set command written byte by byte, a command of
\* the user and a key of the terminal have all reached the same port
C7_Witness ==
    \E p \in Ports :
        /\ \E a \in 1..Len(sink[p]) : sink[p][a].cmd = "SetExg2" /\ sink[p][a].k = 14
        /\ \E a \in 1..Len(sink[p]) : sink[p][a].src = "user"
        /\ \E a \in 1..Len(sink[p]) : sink[p][a].src = "key"

\* C8: no writer keeps the write side locked beyond its own write: whenever
\* the program waits for its next event, every port's writable is unlocked.
C8_WriteLockHeldOnlyDuringWrite == \A p \in Ports : wlock[p] = 0

(***************************************************************************)
(* Claims about connecting and disconnecting (checked under SpecConnect).  *)
(***************************************************************************)
OpenPorts == { p \in Ports : pstate[p] \in {"opening", "opened", "closing"} }
ReadingLoops == { i \in Conns : cpc[i] \in {"reading", "spinning"} }

\* C9: at most one port is open (or being opened or closed) and at most one
\* reader loop is reading at any time; so an invocation of connectToPort
\* that opens a port finds every other port closed and no other loop
\* reading.
C9_AtMostOneActiveConnection ==
    /\ Cardinality(OpenPorts) <= 1
    /\ Cardinality(ReadingLoops) <= 1

\* reader.cancel() and port.close() settle: the browser resolves or rejects
\* each of these promises, and the continuation runs unless the page hangs
FairDisconnect ==
    \A j \in Discs : /\ WF_vars(DiscCancelDone(j))
                     /\ WF_vars(DiscCloseDone(j))
SpecConnectFair == SpecConnect /\ FairDisconnect

\* a disconnect that found a read in flight has ended that reader's loop,
\* which did not call close(); close() is called once, by the disconnect
DisconnectCancelsAndClosesOnce ==
    \A j \in Discs : dcancel[j] # 0 =>
        /\ cpc[dcancel[j]] = "done"
        /\ closeCalls.conn[dcancel[j]] = 0
        /\ closeCalls.disc[j] <= 1
        /\ dpc[j] \in {"closing", "done"} => closeCalls.disc[j] = 1

\* the step that ends a disconnect leaves no current port and the connect
\* button enabled
DisconnectEndsIdle ==
    \A j \in Discs :
        (dpc[j] # "done" /\ dpc'[j] = "done") => (port' = 0 /\ ~connectDisabled')

C11_ReadErrorEndsLoop ==
    [][\A i \in Conns, fatal \in BOOLEAN :
         ReadError(i, fatal) =>
            /\ cpc'[i] \in {"closing", "done"}
            /\ rlock'[crd[i]] = 0
            /\ closeCalls'.conn[i] = closeCalls.conn[i] + 1]_vars

\* setTimeout callbacks run: time passes and a due callback is called
FairTimers == WF_vars(Tick) /\ \A i \in Conns : WF_vars(TimerFire(i))
SpecConnectTimers == SpecConnect /\ FairDisconnect /\ FairTimers

\* the chain of an invocation that got its writer is never cut short, no
\* step is passed over, and each fires at its offset from the open
ChainNeverCancelled ==
    \A i \in Conns :
        /\ cwr[i] # 0 => cstep[i] = Len(fired[i]) + 1
        /\ cstep[i] \in 1..8 => now <= Due(i, cstep[i])
        /\ \A n \in 1..Len(fired[i]) :
             /\ fired[i][n].step = n
             /\ fired[i][n].at = copen[i] + ActualOffsets[n]
             /\ n = 7 => /\ startStreaming
                         /\ fired[i][n].writes = 1
                         /\ fired[i][n].landed =>
                              BytesOf(sink[cwr[i]], i, "Start") = <<7>>

\* C12: a disconnect does not cancel the steps scheduled at open: whatever
\* happens to the connection, each step still pending stays scheduled and
\* fires at its offset, step 7 setting the streaming flag and writing
\* StartStreaming, and the chain runs to its end.
C12_StepsFireAfterDisconnect ==
    /\ []ChainNeverCancelled
    /\ \A i \in Conns :
         (cstep[i] \in 1..8 /\ Due(i, 8) <= MaxTime) ~> (cstep[i] = 9)

\* C12 witness: invocation i was disconnected while reading, a later
\* invocation h opened its port before step 7 of i was due, and step 7 of
\* i has fired all the same: the flag is set and StartStreaming was written
\* to the port the disconnect left open
C12_Witness ==
    \E i \in Conns, h \in Conns, j \in Discs :
        /\ dcancel[j] = i /\ dpc[j] = "done"
        /\ h > i /\ cwr[h] # 0 /\ copen[h] < copen[i] + 6400
        /\ Len(fired[i]) >= 7
        /\ fired[i][7].landed
        /\ startStreaming

\* the step in which the open() of invocation i rejects: at once when the
\* port is not closed, or later while the port is being opened
OpenFailedStep(i) ==
    /\ cpc'[i] = "done"
    /\ \/ cpc[i] = "idle"
       \/ cpc[i] = "opening" /\ pstate'[cawait[i]] = "closed"

\* an invocation that ended without a writer has no timer chain, holds no
\* lock and is not the current reader
NoChainNoLoop(i) ==
    /\ cstep[i] = 0 /\ fired[i] = <<>>
    /\ crd[i] = 0 /\ fed[i] = <<>>
    /\ reader # i
    /\ \A p \in Ports : rlock[p] # i /\ wlock[p] # i

\* C13: when open() fails the attempt ends there: an error and the
\* disconnected line are written, there is no current port, the connect
\* button and the port selector are enabled, and the invocation has
\* scheduled no step and started no reader loop, then or later.
C13_OpenFailureAborts ==
    /\ [][\A i \in Conns : OpenFailedStep(i) =>
            /\ out' = <<"ERROR", "DISCONNECTED">>
            /\ port' = 0
            /\ ~connectDisabled' /\ ~selectorDisabled']_vars
    /\ [](\A i \in Conns : (cpc[i] = "done" /\ cwr[i] = 0) => NoChainNoLoop(i))

\* C13 witness: the first attempt ended by a rejected open()
C13_Witness ==
    /\ cpc[1] = "done" /\ cwr[1] = 0
    /\ \A h \in Conns : h # 1 => cpc[h] = "idle"
    /\ \A j \in Discs : dpc[j] = "idle"
    /\ nErrors = 1
    /\ out = <<"ERROR", "DISCONNECTED">>
    /\ port = 0 /\ ~connectDisabled
    /\ \A p \in Ports : pstate[p] = "closed"

(***************************************************************************)
(* Claims about what the reader loop reports and decodes (SpecFeed).       *)
(***************************************************************************)
AcksOf(events) == SelectSeq(events, LAMBDA e : e[1] = "ack")

\* C14 as claimed: a chunk is reported as an ack exactly if its first byte
\* is 0xFF.
C14_AckOnEveryAckMarker ==
    lastFeed.conn # 0 =>
        (lastFeed.chunk[1] = 255 <=> AcksOf(lastFeed.events) # <<>>)

\* C14 as amended: a chunk is reported as an ack, once and before anything
\* decoded from it, exactly if its first byte is 0xFF and the streaming flag
\* is set; the chunk replaces the buffer as well.
C14_AckOnlyWhileStreaming ==
    lastFeed.conn # 0 =>
        LET ev == lastFeed.events
        IN  /\ (lastFeed.chunk[1] = 255 /\ startStreaming)
                 <=> AcksOf(ev) # <<>>
            /\ Len(AcksOf(ev)) <= 1
            /\ AcksOf(ev) # <<>> =>
                 /\ ev[1][1] = "ack"
                 /\ temp[lastFeed.conn] = lastFeed.chunk

\* C14 witness: an ack reported for a chunk that replaced a buffer in use
C14_Witness ==
    /\ lastFeed.conn # 0
    /\ lastFeed.chunk[1] = 255
    /\ startStreaming
    /\ lastFeed.beforeSet /\ lastFeed.before # <<>>
    /\ AcksOf(lastFeed.events) = << <<"ack", <<>> >> >>
    /\ temp[lastFeed.conn] = lastFeed.chunk

\* the six bytes that carry the four fields of a FirmwareVersion frame
EncodeFirmware(v) ==
    <<v[1] % 256, v[1] \div 256, v[2] % 256, v[2] \div 256, v[3], v[4]>>

\* C15: a buffer that is a complete FirmwareVersion frame (8 bytes, the
\* second one 47) is decoded once, into identifier = byte 2 + 256 * byte 3,
\* major = byte 4 + 256 * byte 5, minor = byte 6, internal = byte 7 (bytes
\* counted from 0), these become the device identity, and writing the
\* fields back in that layout after the two header bytes gives the buffer.
C15_FirmwareDecodeRoundTrip ==
    lastFeed.conn # 0 =>
        LET t == temp[lastFeed.conn]
            fw == FirmwareDecodesOf(lastFeed.events)
        IN  /\ (Len(t) = 8 /\ t[2] = 47) <=> Len(fw) = 1
            /\ Len(fw) <= 1
            /\ Len(fw) = 1 =>
                 /\ fw[1][2] = <<t[3] + 256 * t[4], t[5] + 256 * t[6], t[7], t[8]>>
                 /\ <<firmwareIdentifier, firmwareMajor,
                      firmwareMinor, firmwareInternal>> = fw[1][2]
                 /\ <<t[1], t[2]>> \o EncodeFirmware(fw[1][2]) = t

\* C15 witness: a frame that came in more than one chunk was decoded, with
\* an identifier whose two bytes differ
C15_Witness ==
    /\ lastFeed.conn # 0
    /\ lastFeed.beforeSet /\ lastFeed.before # <<>>
    /\ Len(lastFeed.chunk) < 8
    /\ FirmwareDecodesOf(lastFeed.events) # <<>>
    /\ firmwareIdentifier = 255 + 256 * 3
    /\ firmwareInternal = 255

(***************************************************************************)
(* The two pure functions called on their own: ConvertHexStringToByteArray *)
(* on what can be typed into bytesToWrite, ParseData on sample payloads.   *)
(***************************************************************************)
\* characters that can be typed: hex digits of both cases and others
HexAlphabet == {"2", "E", "f", "G", " ", "-"}

RECURSIVE Strings(_)
Strings(n) ==
    IF n = 0 THEN { <<>> }
    ELSE Strings(n - 1)
         \cup { Append(str, c) : str \in Strings(n - 1), c \in HexAlphabet }

HexInputs == Strings(MaxHexLen) \cup { <<a, b, c, d>> : a, b, c, d \in {"2", "E", "G"} }

\* 17-byte payloads: the three bytes of each field in different orders
SampleBytes == {0, 1, 255}
SamplePayloads ==
    { <<a, b, c, d, a, b, c, c, b, a, d, b, c, a, c, a, b>> :
        a \in SampleBytes, b \in SampleBytes, c \in SampleBytes, d \in SampleBytes }
    \cup { Subarray(DeviceSamplePacket, 1) }

InitCalls ==
    /\ Loaded
    /\ call \in
         { [fn |-> "ConvertHexStringToByteArray", arg |-> str, done |-> FALSE,
            ok |-> FALSE, ret |-> <<>>] : str \in HexInputs }
         \cup { [fn |-> "ParseData", arg |-> data, done |-> FALSE,
                 ok |-> FALSE, ret |-> <<>>] : data \in SamplePayloads }

\* const byteArray = ConvertHexStringToByteArray(bytesToWriteInput.value)
CallConvertHex ==
    /\ call.fn = "ConvertHexStringToByteArray" /\ ~call.done
    /\ LET r == ConvertHexStringToByteArray(call.arg)
       IN  call' = [call EXCEPT !.done = TRUE, !.ok = r.ok, !.ret = r.bytes]
    /\ UNCHANGED <<globals, identity, connVars, discVars, portVars, now, obsVars>>

\* ParseData(temp.subarray(1), dataTypes)
CallParseData ==
    /\ call.fn = "ParseData" /\ ~call.done
    /\ call' = [call EXCEPT !.done = TRUE, !.ok = TRUE,
                            !.ret = ParseData(call.arg, dataTypes)]
    /\ UNCHANGED <<globals, identity, connVars, discVars, portVars, now, obsVars>>

NextCalls == CallConvertHex \/ CallParseData

SpecCalls == InitCalls /\ [][NextCalls]_vars

\* a non-empty string of an even number of hex digits
WellFormedHex(str) ==
    /\ Len(str) > 0
    /\ Len(str) % 2 = 0
    /\ \A k \in 1..Len(str) : HexVal(str[k]) # Undef

\* C16: the conversion fails, returning no bytes, exactly for the strings
\* that are empty, of odd length or hold a character that is no hex digit;
\* for the others it returns one byte per pair of digits, 16 * first +
\* second.
C16_MalformedHexRejected ==
    (call.fn = "ConvertHexStringToByteArray" /\ call.done) =>
        /\ call.ok <=> WellFormedHex(call.arg)
        /\ ~call.ok => call.ret = <<>>
        /\ call.ok =>
             /\ Len(call.ret) = Len(call.arg) \div 2
             /\ \A k \in 1..Len(call.ret) :
                  call.ret[k] = 16 * HexVal(call.arg[2 * k - 1])
                                  + HexVal(call.arg[2 * k])

\* big-endian and little-endian value of three bytes
Big24(b0, b1, b2) == 65536 * b0 + 256 * b1 + b2
Little24(b0, b1, b2) == b0 + 256 * b1 + 65536 * b2

\* C17: for a 17-byte payload ParseData returns 7 values, reading the bytes
\* from left to right: a u24 low byte first, a u8 as it is, an i24r high
\* byte first and without a sign, so each value is in 0..2^24-1.
C17_SampleDecodedByDescriptor ==
    (call.fn = "ParseData" /\ call.done) =>
        LET d == call.arg
        IN  /\ Len(d) = 17
            /\ call.ret = << Little24(d[1], d[2], d[3]),
                             d[4],
                             Big24(d[5], d[6], d[7]),
                             Big24(d[8], d[9], d[10]),
                             d[11],
                             Big24(d[12], d[13], d[14]),
                             Big24(d[15], d[16], d[17]) >>
            /\ \A k \in 1..7 : call.ret[k] \in 0..(16777216 - 1)

\* C17 witness: the payload 1,0,0, 5, 0,0,1, 0,0,2, 6, 0,0,3, 0,0,4 decoded
C17_Witness ==
    /\ call.fn = "ParseData" /\ call.done
    /\ call.arg = <<1, 0, 0, 5, 0, 0, 1, 0, 0, 2, 6, 0, 0, 3, 0, 0, 4>>
    /\ call.ret = <<1, 5, 1, 2, 6, 3, 4>>

(***************************************************************************)
(* Claims about the buffer before its first marker and about the state a   *)
(* connection starts from.                                                 *)
(***************************************************************************)
\* C18: a chunk that starts with neither 0x00 nor 0xFF leaves the buffer as
\* what it held before followed by the chunk, also when nothing was held
\* because no marker chunk has come yet.
C18_AppendExtendsBuffer ==
    (lastFeed.conn # 0 /\ lastFeed.chunk[1] \notin {0, 255}) =>
        /\ tempSet[lastFeed.conn]
        /\ temp[lastFeed.conn] = lastFeed.before \o lastFeed.chunk

\* C19: a connection starts from fresh state: from the open of its port
\* until its own step 7 has fired, the streaming flag is not set (so no
\* sample is decoded and no ack reported before).
C19_FreshStateAtOpen ==
    \A i \in Conns :
        (cwr[i] # 0 /\ Len(fired[i]) < 7) => ~startStreaming

\* the steps 3..6 of chain i that have fired
ExgFired(i) == { n \in 1..Len(fired[i]) : fired[i][n].step \in 3..6 }

\* C20: of the steps 3..6 of one connection that have fired, either all
\* wrote their command or none did.
C20_ExgStepsAllOrNothing ==
    \A i \in Conns : \A a \in ExgFired(i), b \in ExgFired(i) :
        (fired[i][a].writes > 0) <=> (fired[i][b].writes > 0)

\* C21: while the bytes of one sample frame are accumulated, chunk by chunk
\* and without a reset of the buffer, nothing but that sample is decoded:
\* no firmware, hardware or EXG decode on a prefix, the identity stays as it
\* was, and the complete frame gives the one sample.
C21_OnlySampleWhileAccumulating ==
    \A i \in Conns :
        (crd[i] # 0 /\ fed[i] \o wire[crd[i]] \in SampleFrames
                    /\ tempSet[i] /\ temp[i] = fed[i]) =>
            /\ \A n \in 1..Len(log) : log[n][1] = "sample"
            /\ <<firmwareIdentifier, firmwareMajor, firmwareMinor,
                 firmwareInternal, hardwareVersion>>
                 = <<Undef, Undef, Undef, Undef, Undef>>
            /\ (startStreaming /\ Len(fed[i]) = 18) => Len(log) = 1

====
